---- MODULE Spec2Model ----
(***************************************************************************)
(* Model of the report viewer's client-side controllers:                   *)
(*   - the tag filter            (web/bpui/static/js/glance_filter.js)     *)
(*   - the sidebar block links   (block navigation script)                 *)
(*   - the collapse-all button   (collapsable_toggle_button.js)            *)
(* Every action is one turn of the browser's event loop: a click           *)
(* dispatch, a zero-delay timer callback or an animation-completion event. *)
(***************************************************************************)
EXTENDS Integers, FiniteSets, Sequences, TLC

\* ---------------------------------------------------------------- bounds
MaxTags == 3        \* at most this many tag buttons in #reportTagFilter
NumBlocks == 1      \* elements carrying glancetag marker classes
MaxPending == 2     \* user clicks are held back above this many pending timers
MaxChain == 2       \* the count of inversions since the latest input stops here

NumSections == 1    \* collapsible sections
NumPanels == 2      \* collapsible blocks (.panel-collapse); block p is in section sectionOf(p)
MaxListeners == 2   \* clicks are held back above this many pending one-shot listeners

MaxInputs == 3      \* user clicks in a run of the whole page (PageSpec)

Undefined == 0 - 1  \* a JavaScript variable that has not been assigned yet

Unlimited == 0 - 1  \* value of budget when the number of user clicks is not limited

VARIABLES
    tags,                    \* the data-type ids of the tag buttons (1..n)
    active,                  \* the buttons that carry the class "active"
    numToggleButtons,        \* glance_filter.js closure variable
    numActiveToggleButtons,  \* glance_filter.js closure variable (the baseline)
    timers,                  \* pending window.setTimeout(updateContent, 0) callbacks
    blockTags,               \* the glancetag marker classes of every element
    display,                 \* TRUE: no inline "display: none" on the element
    writes,                  \* the display writes of the latest hide/reveal pass, in order
    last,                    \* the latest step of the filter controller
    ready,                   \* document.ready has run addEventHandler
    input,                   \* the latest user input to the filter
    chain,                   \* the inversions since the latest user input (or page load)

    sec,                     \* collapse state of every section element
    blk,                     \* collapse state of every block element
    sectL,                   \* sectL[b]: pending one-shot 'shown' listeners on b's section that open b
    scrollL,                 \* scrollL[b]: pending one-shot 'shown' listeners on b that scroll to b
    scrolls,                 \* scrollIntoView calls per block anchor since the latest link click
    nav,                     \* the latest block-link click
    animQ,                   \* the elements in transition, in the order they were started
    ops,                     \* the calls the block-link script made in the latest turn
    anchors,                 \* the blocks b whose anchor element '#link__b' exists
    error,                   \* the block-link script raised a TypeError in the latest turn
    expL,                    \* expL[b]: pending one-shot 'shown' listeners of expand() on b
    colL,                    \* colL[b]: pending one-shot 'hidden' listeners of collapse() on b
    mode,                    \* data('mode') of #toggleCollapsables
    label,                   \* text of #toggleCollapsables
    armed,                   \* the one-shot click handler is bound on #toggleCollapsables
    clickTimer,              \* pending zero-delay timers of the click handler
    pass,                    \* the latest run of the collapse-all onClick

    budget                   \* the user clicks left in this run, or Unlimited

fvars == <<tags, active, numToggleButtons, numActiveToggleButtons, timers,
           blockTags, display, writes, last, ready, input, chain>>

svars == <<sec, blk, sectL, scrollL, scrolls, nav, animQ, ops, anchors, error>>

cvars == <<expL, colL, mode, label, armed, clickTimer, pass>>

vars == <<fvars, svars, cvars, budget>>

\* one user click is taken from the budget
Spend ==
    /\ budget # 0
    /\ budget' = IF budget > 0 THEN budget - 1 ELSE budget

Blocks == 1..NumBlocks

NoInput == [kind |-> "none", tag |-> 0, deselect |-> FALSE, fromAll |-> FALSE,
            allActive |-> FALSE]

\* ------------------------------------------------------- jQuery selections
allToggleButtons == tags

activeToggleButtons(act) == act

inactiveToggleButtons(act) == tags \ act

\* $(sel).each visits the matched elements in document order
RECURSIVE InDocumentOrder(_)
InDocumentOrder(S) ==
    IF S = {} THEN <<>>
    ELSE LET m == CHOOSE x \in S : \A y \in S : x <= y
         IN  <<m>> \o InDocumentOrder(S \ {m})

\* $(sel).button('toggle') flips the class "active" of every matched button
buttonToggle(sel, act) == (act \ sel) \cup (sel \ act)

\* ------------------------------------------------------ updateContent
\* the condition of the two special cases
SpecialCaseNoEmptyRule(act, base, total) ==
    Cardinality(inactiveToggleButtons(act)) = 1 /\ base = total

SpecialCaseNoIsolateRule(act, base, total) ==
    Cardinality(activeToggleButtons(act)) = 0

SpecialCase(act, base, total) ==
    \/ (Cardinality(inactiveToggleButtons(act)) = 1 /\ base = total)
    \/ Cardinality(activeToggleButtons(act)) = 0

HideWrites(act) ==
    [i \in 1..Cardinality(inactiveToggleButtons(act)) |->
        <<"hide", InDocumentOrder(inactiveToggleButtons(act))[i]>>]

RevealWritesAllButtons(act) ==
    [i \in 1..Cardinality(allToggleButtons) |->
        <<"show", InDocumentOrder(allToggleButtons)[i]>>]

RevealWrites(act) ==
    [i \in 1..Cardinality(activeToggleButtons(act)) |->
        <<"show", InDocumentOrder(activeToggleButtons(act))[i]>>]

\* the writes of one pass, in the order the code issues them
PassWritesRevealFirst(act) == RevealWrites(act) \o HideWrites(act)

PassWrites(act) == HideWrites(act) \o RevealWrites(act)

\* $('.glancetag' + tag).hide()  /  $('.glancetag' + tag).css('display', '')
ApplyWriteHideOnly(disp, w) ==
    [b \in Blocks |->
        IF w[2] \in blockTags[b] /\ w[1] = "hide" THEN FALSE ELSE disp[b]]

ApplyWrite(disp, w) ==
    [b \in Blocks |->
        IF w[2] \in blockTags[b] THEN (w[1] = "show") ELSE disp[b]]

RECURSIVE ApplyWrites(_, _)
ApplyWrites(disp, ws) ==
    IF ws = <<>> THEN disp
    ELSE ApplyWrites(ApplyWrite(disp, Head(ws)), Tail(ws))

NoChain == [inversions |-> 0, emptied |-> FALSE]

\* one more inversion; emptied: it was made because no button was active
Inverted(ch, act) ==
    [inversions |-> IF ch.inversions < MaxChain THEN ch.inversions + 1
                    ELSE MaxChain,
     emptied |-> (Cardinality(activeToggleButtons(act)) = 0)]

\* the body of updateContent; rest is the number of timers left pending
updateContentCountsFirst(rest) ==
    IF SpecialCase(active, numActiveToggleButtons, numToggleButtons)
    THEN /\ active' = buttonToggle(allToggleButtons, active)
         /\ numActiveToggleButtons' = Cardinality(activeToggleButtons(active))
         /\ timers' = rest + 1
         /\ last' = "inverted"
         /\ chain' = Inverted(chain, active)
         /\ UNCHANGED <<display, writes>>
    ELSE /\ numActiveToggleButtons' = Cardinality(activeToggleButtons(active))
         /\ writes' = PassWrites(active)
         /\ display' = ApplyWrites(display, PassWrites(active))
         /\ last' = "reconciled"
         /\ timers' = rest
         /\ UNCHANGED <<active, chain>>

updateContent(rest) ==
    IF SpecialCase(active, numActiveToggleButtons, numToggleButtons)
    THEN /\ active' = buttonToggle(allToggleButtons, active)
         /\ timers' = rest + 1
         /\ last' = "inverted"
         /\ chain' = Inverted(chain, active)
         /\ UNCHANGED <<numActiveToggleButtons, display, writes>>
    ELSE /\ numActiveToggleButtons' = Cardinality(activeToggleButtons(active))
         /\ writes' = PassWrites(active)
         /\ display' = ApplyWrites(display, PassWrites(active))
         /\ last' = "reconciled"
         /\ timers' = rest
         /\ UNCHANGED <<active, chain>>

\* ------------------------------------------------------------ actions
\* $(document).ready(addEventHandler)
addEventHandler ==
    /\ UNCHANGED budget
    /\ ~ready
    /\ ready' = TRUE
    /\ numToggleButtons' = Cardinality(allToggleButtons)
    /\ IF SpecialCase(active, Cardinality(activeToggleButtons(active)),
                      Cardinality(allToggleButtons))
       THEN /\ active' = buttonToggle(allToggleButtons, active)
            /\ numActiveToggleButtons' = Cardinality(activeToggleButtons(active))
            /\ timers' = timers + 1
            /\ last' = "inverted"
            /\ chain' = Inverted(chain, active)
            /\ UNCHANGED <<display, writes>>
       ELSE /\ numActiveToggleButtons' = Cardinality(activeToggleButtons(active))
            /\ writes' = PassWrites(active)
            /\ display' = ApplyWrites(display, PassWrites(active))
            /\ last' = "reconciled"
            /\ UNCHANGED <<active, timers, chain>>
    /\ UNCHANGED <<tags, blockTags, input>>
    /\ UNCHANGED <<svars, cvars>>

\* a click on a tag button: the handler bound on the button schedules
\* updateContent, then the button widget's delegated handler flips the button
ClickToggleButtonSync(t) ==
    /\ Spend
    /\ ready
    /\ timers < MaxPending
    /\ input' = [kind |-> "toggle", tag |-> t, deselect |-> (t \in active),
                  fromAll |-> (active = tags /\
                               numActiveToggleButtons = numToggleButtons),
                  allActive |-> (active = tags)]
    /\ IF SpecialCase(active, numActiveToggleButtons, numToggleButtons)
       THEN /\ active' = buttonToggle({t}, buttonToggle(allToggleButtons, active))
            /\ timers' = timers + 1
            /\ last' = "inverted"
            /\ chain' = Inverted(NoChain, active)
            /\ UNCHANGED <<numActiveToggleButtons, display, writes>>
       ELSE /\ numActiveToggleButtons' = Cardinality(activeToggleButtons(active))
            /\ writes' = PassWrites(active)
            /\ display' = ApplyWrites(display, PassWrites(active))
            /\ active' = buttonToggle({t}, active)
            /\ last' = "reconciled"
            /\ chain' = NoChain
            /\ UNCHANGED timers
    /\ UNCHANGED <<tags, numToggleButtons, blockTags, ready>>
    /\ UNCHANGED <<svars, cvars>>

ClickToggleButton(t) ==
    /\ Spend
    /\ ready
    /\ timers < MaxPending
    /\ active' = buttonToggle({t}, active)
    /\ timers' = timers + 1
    /\ last' = "click"
    /\ input' = [kind |-> "toggle", tag |-> t, deselect |-> (t \in active),
                  fromAll |-> (active = tags /\
                               numActiveToggleButtons = numToggleButtons),
                  allActive |-> (active = tags)]
    /\ chain' = NoChain
    /\ UNCHANGED <<tags, numToggleButtons, numActiveToggleButtons, blockTags,
                   display, writes, ready>>
    /\ UNCHANGED <<svars, cvars>>

\* the buttons the #btnall handler toggles
btnallSelectionAllButtons(act) == allToggleButtons

btnallSelection(act) == inactiveToggleButtons(act)

\* a click on #btnall
ClickEnableAll ==
    /\ Spend
    /\ ready
    /\ timers < MaxPending
    /\ active' = buttonToggle(btnallSelection(active), active)
    /\ timers' = timers + 1
    /\ last' = "enableAll"
    /\ input' = [NoInput EXCEPT !.kind = "all", !.allActive = (active = tags)]
    /\ chain' = NoChain
    /\ UNCHANGED <<tags, numToggleButtons, numActiveToggleButtons, blockTags,
                   display, writes, ready>>
    /\ UNCHANGED <<svars, cvars>>

\* a pending zero-delay timer fires
TimerUpdateContentShow ==
    /\ UNCHANGED budget
    /\ timers > 0
    /\ updateContent(timers - 1)
    /\ UNCHANGED <<tags, numToggleButtons, blockTags, ready, input>>
    /\ blk' = [p \in DOMAIN blk |-> IF blk[p] = "closed" THEN "in" ELSE blk[p]]
    /\ UNCHANGED <<sec, sectL, scrollL, scrolls, nav, animQ, ops, anchors, error>>
    /\ UNCHANGED cvars

TimerUpdateContent ==
    /\ UNCHANGED budget
    /\ timers > 0
    /\ updateContent(timers - 1)
    /\ UNCHANGED <<tags, numToggleButtons, blockTags, ready, input>>
    /\ UNCHANGED <<svars, cvars>>

\* =================================================== collapsible elements
Sections == 1..NumSections

Panels == 1..NumPanels

sectionOf(p) == ((p - 1) % NumSections) + 1

\* A collapsible element is "closed" (class collapse), "showing" (class
\* collapsing, on its way to shown), "in" (class collapse in) or "hiding"
\* (class collapsing, on its way to closed; the class in is removed when the
\* hide starts).  "absent": the page has no element with that id, so every
\* selection of it is empty.
CollapseStates == {"closed", "showing", "in", "hiding", "absent"}

isCollapsableShown(st) == st = "in"

\* .collapse('show'): ignored while the element is in transition or shown
collapseShow(st) == IF st = "closed" THEN "showing" ELSE st

\* .collapse('hide'): ignored while the element is in transition or not shown
collapseHide(st) == IF st = "in" THEN "hiding" ELSE st

\* the data-toggle="collapse" link in a block heading
collapseToggle(st) ==
    IF isCollapsableShown(st) THEN collapseHide(st) ELSE collapseShow(st)

InTransition(st) == st \in {"showing", "hiding"}

\* Every collapse transition takes the same time, so transitions complete in
\* the order they were started.  animQ holds the elements in transition, one
\* set per turn that started some; the elements of one set complete in any
\* order.
NewlyStarted ==
    {<<"sec", s>> : s \in {x \in Sections :
                              ~InTransition(sec[x]) /\ InTransition(sec'[x])}}
    \cup {<<"blk", p>> : p \in {x \in Panels :
                              ~InTransition(blk[x]) /\ InTransition(blk'[x])}}

\* the transition of element e may complete now
CanComplete(e) == animQ # <<>> /\ e \in Head(animQ)

\* the queue after the transition of e has completed
Completed(q, e) ==
    IF Head(q) = {e} THEN Tail(q) ELSE <<Head(q) \ {e}>> \o Tail(q)

\* the transitions started in this step join the queue q
Enqueue(q) ==
    animQ' = IF NewlyStarted = {} THEN q ELSE Append(q, NewlyStarted)

\* data-text-expand and data-text-collapse of #toggleCollapsables
textExpand == "Expand all"

textCollapse == "Collapse all"

NoPass == [target |-> "none", requested |-> {}, animating |-> {}, quiet |-> FALSE]

\* no block is in transition and no collapse-all listener is pending
CleanPage ==
    \A p \in Panels : blk[p] \in {"closed", "in"} /\ expL[p] = 0 /\ colL[p] = 0

\* ------------------------------------------------ sidebar block links
NoNav == [blk |-> 0, start |-> "none", clean |-> FALSE]

\* neither the section nor the block of link b is in transition
Quiescent(b) ==
    /\ sec[sectionOf(b)] \in {"closed", "in"}
    /\ blk[b] \in {"closed", "in"}

StartState(secSt, blkSt) ==
    IF secSt = "closed"
    THEN (IF blkSt = "closed" THEN "cc" ELSE "co")
    ELSE (IF blkSt = "closed" THEN "oc" ELSE "oo")

\* the branch onClick takes
onClickBranchNoBlockCheck(secSt, blkSt) ==
    IF isCollapsableShown(secSt) THEN "scroll" ELSE "showSection"

onClickBranchNoSectionWait(secSt, blkSt) ==
    IF isCollapsableShown(blkSt) THEN "scroll" ELSE "showBlock"

onClickBranch(secSt, blkSt) ==
    IF isCollapsableShown(secSt)
    THEN (IF isCollapsableShown(blkSt) THEN "scroll" ELSE "showBlock")
    ELSE "showSection"

\* the 'shown' listeners of section s that fire, per block they open
SectionListenersFired(s) ==
    [p \in Panels |-> IF sectionOf(p) = s THEN sectL[p] ELSE 0]

\* showBlockAndScrollIntoView, run n[p] times for every block p, on the
\* block states b0 and listener counts l0
showBlockAndScrollIntoView(n, b0, l0) ==
    /\ scrollL' = [p \in Panels |-> IF b0[p] = "absent" THEN l0[p]
                                    ELSE l0[p] + n[p]]
    /\ blk' = [p \in Panels |-> IF n[p] > 0 THEN collapseShow(b0[p]) ELSE b0[p]]

\* the calls of showBlockAndScrollIntoView for block p, and n[p] runs of it
\* for every block p
ShowBlockOps(p) == << <<"one", "blk", p>>, <<"show", "blk", p>> >>

ShowSectionOps(s) == << <<"one", "sec", s>>, <<"show", "sec", s>> >>

ScrollOps(p) == << <<"scroll", "anchor", p>> >>

RECURSIVE Repeat(_, _)
Repeat(seq, k) == IF k = 0 THEN <<>> ELSE seq \o Repeat(seq, k - 1)

RECURSIVE ListenerOps(_, _)
ListenerOps(n, from) ==
    IF from > NumPanels THEN <<>>
    ELSE Repeat(ShowBlockOps(from), n[from]) \o ListenerOps(n, from + 1)

\* a click on the sidebar link of block b
onClick(b) ==
    /\ Spend
    /\ sectL[b] + scrollL[b] < MaxListeners
    /\ nav' = [blk |-> b,
               start |-> IF Quiescent(b) THEN StartState(sec[sectionOf(b)], blk[b])
                         ELSE "none",
               clean |-> (sectL[b] = 0 /\ scrollL[b] = 0)]
    /\ LET branch == onClickBranch(sec[sectionOf(b)], blk[b])
           once == [p \in Panels |-> IF p = b THEN 1 ELSE 0]
           zero == [p \in Panels |-> 0]
       IN  CASE branch = "scroll" ->
                  /\ scrolls' = IF b \in anchors THEN [zero EXCEPT ![b] = 1]
                                 ELSE zero
                  /\ ops' = IF b \in anchors THEN ScrollOps(b) ELSE <<>>
                  /\ error' = (b \notin anchors)
                  /\ UNCHANGED <<sec, blk, sectL, scrollL>>
             [] branch = "showBlock" ->
                  /\ showBlockAndScrollIntoView(once, blk, scrollL)
                  /\ scrolls' = zero
                  /\ ops' = ShowBlockOps(b)
                  /\ error' = FALSE
                  /\ UNCHANGED <<sec, sectL>>
             [] branch = "showSection" ->
                  /\ sectL' = IF sec[sectionOf(b)] = "absent" THEN sectL
                               ELSE [sectL EXCEPT ![b] = @ + 1]
                  /\ sec' = [sec EXCEPT ![sectionOf(b)] = collapseShow(@)]
                  /\ scrolls' = zero
                  /\ ops' = ShowSectionOps(sectionOf(b))
                  /\ error' = FALSE
                  /\ UNCHANGED <<blk, scrollL>>
    /\ Enqueue(animQ)
    /\ UNCHANGED anchors
    /\ UNCHANGED <<fvars, cvars>>

\* the expand animation of section s completes: 'shown.bs.collapse' on s
SectionShown(s) ==
    /\ UNCHANGED budget
    /\ sec[s] = "showing"
    /\ CanComplete(<<"sec", s>>)
    /\ sec' = [sec EXCEPT ![s] = "in"]
    /\ showBlockAndScrollIntoView(SectionListenersFired(s), blk, scrollL)
    /\ sectL' = [p \in Panels |-> IF sectionOf(p) = s THEN 0 ELSE sectL[p]]
    /\ ops' = ListenerOps(SectionListenersFired(s), 1)
    /\ Enqueue(Completed(animQ, <<"sec", s>>))
    /\ error' = FALSE
    /\ UNCHANGED <<scrolls, nav, anchors>>
    /\ UNCHANGED <<fvars, cvars>>

\* the expand animation of block b completes: 'shown.bs.collapse' on b, which
\* runs b's listeners and then bubbles to b's section.  Without an anchor
\* element the first scroll listener raises a TypeError, which ends the
\* dispatch: the other scroll listeners stay bound, the event does not bubble,
\* and of expand()'s listeners the k registered earlier have run.
BlockShown(b) ==
    /\ UNCHANGED budget
    /\ blk[b] = "showing"
    /\ CanComplete(<<"blk", b>>)
    /\ IF scrollL[b] > 0 /\ b \notin anchors
       THEN /\ error' = TRUE
            /\ ops' = <<>>
            /\ blk' = [blk EXCEPT ![b] = "in"]
            /\ scrollL' = [scrollL EXCEPT ![b] = @ - 1]
            /\ \E k \in 0..expL[b] :
                   /\ expL' = [expL EXCEPT ![b] = @ - k]
                   /\ mode' = IF k > 0 THEN "expanded" ELSE mode
                   /\ label' = IF k > 0 THEN textCollapse ELSE label
            /\ UNCHANGED <<scrolls, sectL>>
       ELSE /\ error' = FALSE
            /\ scrolls' = [scrolls EXCEPT ![b] = @ + scrollL[b]]
            /\ ops' = Repeat(ScrollOps(b), scrollL[b]) \o
                         ListenerOps(SectionListenersFired(sectionOf(b)), 1)
            /\ showBlockAndScrollIntoView(SectionListenersFired(sectionOf(b)),
                                          [blk EXCEPT ![b] = "in"],
                                          [scrollL EXCEPT ![b] = 0])
            /\ sectL' = [p \in Panels |->
                           IF sectionOf(p) = sectionOf(b) THEN 0 ELSE sectL[p]]
            /\ expL' = [expL EXCEPT ![b] = 0]
            /\ mode' = IF expL[b] > 0 THEN "expanded" ELSE mode
            /\ label' = IF expL[b] > 0 THEN textCollapse ELSE label
    /\ pass' = [pass EXCEPT !.animating = @ \ {b}]
    /\ UNCHANGED <<sec, nav, colL, armed, clickTimer, anchors>>
    /\ Enqueue(Completed(animQ, <<"blk", b>>))
    /\ UNCHANGED fvars

\* the collapse animation of block b completes: 'hidden.bs.collapse' on b
BlockHiddenKeepsLabel(b) ==
    /\ UNCHANGED budget
    /\ blk[b] = "hiding"
    /\ CanComplete(<<"blk", b>>)
    /\ blk' = [blk EXCEPT ![b] = "closed"]
    /\ animQ' = Completed(animQ, <<"blk", b>>)
    /\ ops' = <<>>
    /\ error' = FALSE
    /\ UNCHANGED anchors
    /\ colL' = [colL EXCEPT ![b] = 0]
    /\ mode' = IF colL[b] > 0 THEN "collapsed" ELSE mode
    /\ pass' = [pass EXCEPT !.animating = @ \ {b}]
    /\ UNCHANGED <<sec, sectL, scrollL, scrolls, nav, expL, armed, clickTimer, label>>
    /\ UNCHANGED fvars

BlockHidden(b) ==
    /\ UNCHANGED budget
    /\ blk[b] = "hiding"
    /\ CanComplete(<<"blk", b>>)
    /\ blk' = [blk EXCEPT ![b] = "closed"]
    /\ animQ' = Completed(animQ, <<"blk", b>>)
    /\ ops' = <<>>
    /\ error' = FALSE
    /\ UNCHANGED anchors
    /\ colL' = [colL EXCEPT ![b] = 0]
    /\ mode' = IF colL[b] > 0 THEN "collapsed" ELSE mode
    /\ label' = IF colL[b] > 0 THEN textExpand ELSE label
    /\ pass' = [pass EXCEPT !.animating = @ \ {b}]
    /\ UNCHANGED <<sec, sectL, scrollL, scrolls, nav, expL, armed, clickTimer>>
    /\ UNCHANGED fvars

\* a click on the heading link of block b (visible unless its section is closed)
ToggleBlock(b) ==
    /\ Spend
    /\ blk[b] # "absent"
    /\ sec[sectionOf(b)] # "closed"
    /\ blk' = [blk EXCEPT ![b] = collapseToggle(@)]
    /\ nav' = [nav EXCEPT !.start = "none"]
    /\ pass' = [pass EXCEPT !.quiet = FALSE]
    /\ ops' = <<>>
    /\ error' = FALSE
    /\ UNCHANGED anchors
    /\ UNCHANGED <<sec, sectL, scrollL, scrolls>>
    /\ Enqueue(animQ)
    /\ UNCHANGED <<expL, colL, mode, label, armed, clickTimer>>
    /\ UNCHANGED fvars

\* -------------------------------------------- collapse-all button
\* a click on #toggleCollapsables while the one-shot handler is bound
ClickToggleCollapsables ==
    /\ Spend
    /\ armed
    /\ \A p \in Panels : expL[p] < MaxListeners /\ colL[p] < MaxListeners
    /\ armed' = FALSE
    /\ clickTimer' = clickTimer + 1
    /\ UNCHANGED <<expL, colL, mode, label, pass>>
    /\ UNCHANGED <<fvars, svars>>

\* $('.panel-collapse')
collapseSelection(b0) == {p \in Panels : b0[p] # "absent"}

\* $('.panel-collapse:not(".in")')
expandSelectionAllPanels(b0) == Panels

expandSelection(b0) ==
    {p \in Panels : b0[p] # "absent" /\ ~isCollapsableShown(b0[p])}

\* collapse()
collapse ==
    /\ colL' = [p \in Panels |->
                 IF p \in collapseSelection(blk) THEN colL[p] + 1 ELSE colL[p]]
    /\ blk' = [p \in Panels |->
                IF p \in collapseSelection(blk) THEN collapseHide(blk[p]) ELSE blk[p]]
    /\ pass' = [target |-> "collapsed",
                requested |-> collapseSelection(blk),
                animating |-> {p \in collapseSelection(blk) : blk[p] = "in"},
                quiet |-> CleanPage]
    /\ UNCHANGED expL

\* expand()
expand ==
    /\ expL' = [p \in Panels |->
                 IF p \in expandSelection(blk) THEN expL[p] + 1 ELSE expL[p]]
    /\ blk' = [p \in Panels |->
                IF p \in expandSelection(blk) THEN collapseShow(blk[p]) ELSE blk[p]]
    /\ pass' = [target |-> "expanded",
                requested |-> expandSelection(blk),
                animating |-> {p \in expandSelection(blk) : blk[p] = "closed"},
                quiet |-> CleanPage]
    /\ UNCHANGED colL

\* the timer of the click handler fires: onClick(), then setClickHandler()
toggleCollapsablesOnClick ==
    /\ UNCHANGED budget
    /\ clickTimer > 0
    /\ clickTimer' = clickTimer - 1
    /\ IF mode = "expanded" THEN collapse ELSE expand
    /\ armed' = TRUE
    /\ ops' = <<>>
    /\ error' = FALSE
    /\ UNCHANGED anchors
    /\ UNCHANGED <<mode, label>>
    /\ UNCHANGED <<sec, sectL, scrollL, scrolls, nav>>
    /\ Enqueue(animQ)
    /\ UNCHANGED fvars

\* ------------------------------------------------------ specifications
FilterInit ==
    /\ tags \in {1..n : n \in 1..MaxTags}
    /\ active \in SUBSET tags
    /\ numToggleButtons = Undefined
    /\ numActiveToggleButtons = Undefined
    /\ timers = 0
    /\ blockTags \in [Blocks -> SUBSET tags]
    /\ display = [b \in Blocks |-> TRUE]
    /\ writes = <<>>
    /\ last = "load"
    /\ ready = FALSE
    /\ input = NoInput
    /\ chain = NoChain

FilterNext ==
    \/ addEventHandler
    \/ \E t \in tags : ClickToggleButton(t)
    \/ ClickEnableAll
    \/ TimerUpdateContent

\* the page as rendered, before any sidebar interaction
SidebarIdle ==
    /\ sec = [s \in Sections |-> "in"]
    /\ blk = [p \in Panels |-> "in"]
    /\ sectL = [p \in Panels |-> 0]
    /\ scrollL = [p \in Panels |-> 0]
    /\ scrolls = [p \in Panels |-> 0]
    /\ nav = NoNav
    /\ animQ = <<>>
    /\ ops = <<>>
    /\ anchors = Panels
    /\ error = FALSE

FilterIdle ==
    /\ tags = 1..1
    /\ active = tags
    /\ numToggleButtons = Undefined
    /\ numActiveToggleButtons = Undefined
    /\ timers = 0
    /\ blockTags = [b \in Blocks |-> {}]
    /\ display = [b \in Blocks |-> TRUE]
    /\ writes = <<>>
    /\ last = "load"
    /\ ready = FALSE
    /\ input = NoInput
    /\ chain = NoChain

\* #toggleCollapsables as rendered, with its click handler bound
CollapseAllIdle ==
    /\ expL = [p \in Panels |-> 0]
    /\ colL = [p \in Panels |-> 0]
    /\ mode = "collapsed"
    /\ label = textExpand
    /\ armed = TRUE
    /\ clickTimer = 0
    /\ pass = NoPass

Init == FilterInit /\ SidebarIdle /\ CollapseAllIdle /\ budget = Unlimited

Next == FilterNext

Spec == Init /\ [][Next]_vars

\* the sidebar controller on a page whose sections and blocks are each
\* shown or closed
SidebarInit ==
    /\ budget = Unlimited
    /\ FilterIdle
    /\ CollapseAllIdle
    /\ sec \in [Sections -> {"closed", "in"}]
    /\ blk \in [Panels -> {"closed", "in"}]
    /\ sectL = [p \in Panels |-> 0]
    /\ scrollL = [p \in Panels |-> 0]
    /\ scrolls = [p \in Panels |-> 0]
    /\ nav = NoNav
    /\ animQ = <<>>
    /\ ops = <<>>
    /\ anchors = Panels
    /\ error = FALSE

SidebarNext ==
    \/ \E b \in Panels : onClick(b)
    \/ \E s \in Sections : SectionShown(s)
    \/ \E b \in Panels : BlockShown(b)
    \/ \E b \in Panels : BlockHidden(b)
    \/ \E b \in Panels : ToggleBlock(b)

SidebarSpec == SidebarInit /\ [][SidebarNext]_vars

\* a page on which section, block and anchor elements may be missing (the
\* report template renders no '#collapse-section__' element)
MissingInit ==
    /\ budget = Unlimited
    /\ FilterIdle
    /\ CollapseAllIdle
    /\ sec \in [Sections -> {"absent", "closed", "in"}]
    /\ blk \in [Panels -> {"absent", "closed", "in"}]
    /\ sectL = [p \in Panels |-> 0]
    /\ scrollL = [p \in Panels |-> 0]
    /\ scrolls = [p \in Panels |-> 0]
    /\ nav = NoNav
    /\ animQ = <<>>
    /\ ops = <<>>
    /\ anchors \in SUBSET Panels
    /\ error = FALSE

MissingNext ==
    \/ \E b \in Panels : onClick(b)
    \/ \E s \in Sections : SectionShown(s)
    \/ \E b \in Panels : BlockShown(b)
    \/ \E b \in Panels : BlockHidden(b)
    \/ \E b \in Panels : ToggleBlock(b)

MissingSpec == MissingInit /\ [][MissingNext]_vars

\* the whole page: the three scripts on the report page as rendered, with a
\* closed section around its blocks, for a limited number of user clicks
PageInit ==
    /\ budget = MaxInputs
    /\ tags = 1..MaxTags
    /\ active = tags
    /\ numToggleButtons = Undefined
    /\ numActiveToggleButtons = Undefined
    /\ timers = 0
    /\ blockTags = [b \in Blocks |-> {1}]
    /\ display = [b \in Blocks |-> TRUE]
    /\ writes = <<>>
    /\ last = "load"
    /\ ready = FALSE
    /\ input = NoInput
    /\ chain = NoChain
    /\ CollapseAllIdle
    /\ sec = [s \in Sections |-> "closed"]
    /\ blk = [p \in Panels |-> "in"]
    /\ sectL = [p \in Panels |-> 0]
    /\ scrollL = [p \in Panels |-> 0]
    /\ scrolls = [p \in Panels |-> 0]
    /\ nav = NoNav
    /\ animQ = <<>>
    /\ ops = <<>>
    /\ anchors = Panels
    /\ error = FALSE

PageNext ==
    \/ addEventHandler
    \/ \E t \in tags : ClickToggleButton(t)
    \/ ClickEnableAll
    \/ TimerUpdateContent
    \/ \E b \in Panels : onClick(b)
    \/ \E s \in Sections : SectionShown(s)
    \/ \E b \in Panels : BlockShown(b)
    \/ \E b \in Panels : BlockHidden(b)
    \/ \E b \in Panels : ToggleBlock(b)
    \/ ClickToggleCollapsables
    \/ toggleCollapsablesOnClick

PageSpec == PageInit /\ [][PageNext]_vars

\* the collapse-all button on a page whose blocks are each shown or closed
CollapseAllInit ==
    /\ budget = Unlimited
    /\ FilterIdle
    /\ CollapseAllIdle
    /\ sec = [s \in Sections |-> "in"]
    /\ blk \in [Panels -> {"closed", "in"}]
    /\ sectL = [p \in Panels |-> 0]
    /\ scrollL = [p \in Panels |-> 0]
    /\ scrolls = [p \in Panels |-> 0]
    /\ nav = NoNav
    /\ animQ = <<>>
    /\ ops = <<>>
    /\ anchors = Panels
    /\ error = FALSE

CollapseAllNext ==
    \/ ClickToggleCollapsables
    \/ toggleCollapsablesOnClick
    \/ \E b \in Panels : BlockShown(b)
    \/ \E b \in Panels : BlockHidden(b)
    \/ \E b \in Panels : ToggleBlock(b)

CollapseAllSpec == CollapseAllInit /\ [][CollapseAllNext]_vars

\* no collapse animation is in flight
Settled ==
    /\ \A s \in Sections : sec[s] \in {"closed", "in"}
    /\ \A p \in Panels : blk[p] \in {"closed", "in"}

\* the terminal state of the latest block-link click: section and block
\* expanded, anchor scrolled into view
NavTerminal ==
    /\ sec[sectionOf(nav.blk)] = "in"
    /\ blk[nav.blk] = "in"
    /\ scrolls[nav.blk] >= 1

\* the latest user input deselected one button while all were active and
\* the stored baseline equalled the total
IsolateInput == input.kind = "toggle" /\ input.deselect /\ input.fromAll

\* no deferred updateContent is pending and the latest one did hide/reveal
Reconciled == ready /\ timers = 0 /\ last = "reconciled"

\* ------------------------------------------------------------- claims
\* C1: once every pending deferred updateContent has run and the last one
\* reached the hide/reveal step, at least one tag button is active.
C1_NonEmptyFilter == Reconciled => Cardinality(active) >= 1

\* C1 witness: the user deselected the last active button of several, and
\* the reconciliation that followed the reset has completed.
C1_Witness ==
    /\ Reconciled
    /\ Cardinality(tags) >= 2
    /\ input.kind = "toggle" /\ input.deselect /\ ~input.fromAll
    /\ active = tags

\* C2: when all N buttons are active and the baseline recorded by the last
\* completed reconciliation is N, a single click deselecting T, followed by
\* no further user input, leaves exactly {T} active once the reconciliation
\* has completed.
C2_IsolateOnSingleDeselect ==
    (IsolateInput /\ Reconciled) => active = {input.tag}

\* C2 witness: the isolate has completed with three buttons.
C2_Witness ==
    /\ IsolateInput
    /\ Reconciled
    /\ Cardinality(tags) = 3
    /\ numActiveToggleButtons = 1

HasActiveMarker(b) == blockTags[b] \cap activeToggleButtons(active) # {}

HasInactiveMarker(b) == blockTags[b] \cap inactiveToggleButtons(active) # {}

\* C3: whenever a reconciliation has completed its hide/reveal step and no
\* deferred updateContent is pending, every element that carries at least
\* one tag marker is visible iff one of its markers belongs to an active
\* button.
C3_VisibilityMatchesActiveSet ==
    Reconciled =>
        \A b \in Blocks :
            blockTags[b] # {} => (display[b] <=> HasActiveMarker(b))

\* C3 witness: after a click and a completed reconciliation an element with
\* two markers is hidden while some button is active.
C3_Witness ==
    /\ Reconciled
    /\ input.kind = "toggle"
    /\ \E b \in Blocks : Cardinality(blockTags[b]) = 2 /\ ~display[b]

\* C4: within one reconciliation pass every hide write precedes every reveal
\* write, so an element carrying both an inactive and an active tag marker
\* is visible at the end of the pass.
C4_HideBeforeReveal ==
    last = "reconciled" =>
        /\ \A i, j \in 1..Len(writes) :
              (writes[i][1] = "show" /\ writes[j][1] = "hide") => j < i
        /\ \A b \in Blocks :
              (HasActiveMarker(b) /\ HasInactiveMarker(b)) => display[b]

\* C4 witness: a pass that issued hides and reveals has just ended and an
\* element carries an inactive marker that is written before its active one.
C4_Witness ==
    /\ last = "reconciled"
    /\ input.kind = "toggle"
    /\ \E i, j \in 1..Len(writes) :
          /\ writes[i][1] = "hide" /\ writes[j][1] = "show"
          /\ \E b \in Blocks : {writes[i][2], writes[j][2]} \subseteq blockTags[b]

C6_AnyStartTerminal ==
    (nav.start \in {"cc", "oc", "oo", "co"} /\ Settled) => NavTerminal

\* C7: after a click on the collapse-all button the stored mode changes
\* only after every animation started by that click has completed: the mode
\* never has the target value while a block animated by the click is still
\* in transition.
C7_FlipAfterAllComplete ==
    (pass.target # "none" /\ pass.animating # {}) => mode # pass.target

\* C8: the collapse-all click handler is bound again only after the
\* animations of the previous global transition have completed, so no
\* click is accepted while they are in flight.
C8_RearmAfterCompletion == armed => pass.animating = {}

\* C9: after a click, once onClick has run, no animation is in flight and
\* no other input intervened, the stored mode has flipped to the opposite
\* value and the label shows the matching text, for every combination of
\* block states.
C9_ModeFlips ==
    (pass.target # "none" /\ pass.quiet /\ Settled) =>
        /\ mode = pass.target
        /\ label = (IF pass.target = "expanded" THEN textCollapse ELSE textExpand)

\* C10: when onClick runs in mode "collapsed", exactly the blocks that are
\* not expanded receive an expand request and one more completion
\* listener; the expanded blocks receive neither.
C10_ExpandOnlyCollapsed ==
    [][(clickTimer > 0 /\ clickTimer' < clickTimer /\ mode = "collapsed") =>
          \A p \in Panels :
              IF blk[p] = "in"
              THEN p \notin pass'.requested /\ expL'[p] = expL[p] /\ blk'[p] = blk[p]
              ELSE p \in pass'.requested /\ expL'[p] = expL[p] + 1
                   /\ (blk[p] = "closed" => blk'[p] = "showing")]_vars

\* C10 witness: an expand pass has run on a page with some blocks expanded
\* and some collapsed.
C10_Witness ==
    /\ pass.target = "expanded"
    /\ pass.requested # {}
    /\ pass.requested # Panels
    /\ \A p \in Panels : (p \in pass.requested) <=> (blk[p] = "showing" /\ expL[p] = 1)

\* C11: when onClick runs in mode "expanded", a block that is already
\* collapsed is left out of the pass: it receives no collapse request and no
\* completion listener is registered on it.
C11_CollapseSkipsCollapsed ==
    [][(clickTimer > 0 /\ clickTimer' < clickTimer /\ mode = "expanded") =>
          \A p \in Panels :
              blk[p] = "closed" =>
                  p \notin pass'.requested /\ colL'[p] = colL[p]]_vars

\* C12: after a click on the enable-all button, from any partition, every
\* tag button is active as soon as the handler returns, and once the deferred
\* reconciliation has completed every button is still active and every
\* element carrying a tag marker is visible.
C12_EnableAll ==
    input.kind = "all" =>
        /\ active = tags
        /\ Reconciled => \A b \in Blocks : blockTags[b] # {} => display[b]

\* enable-all was clicked on a partial selection and its reconciliation is done
C12_Witness ==
    /\ input.kind = "all" /\ ~input.allActive
    /\ Reconciled
    /\ \E b \in Blocks : blockTags[b] # {} /\ display[b]

\* the latest input deselected one button while every button was active
GenuineSingleDeselect ==
    /\ input.kind = "toggle" /\ input.deselect /\ input.allActive
    /\ inactiveToggleButtons(active) = {input.tag}

\* C13: whenever a deferred updateContent applies the inversion because
\* exactly one button is inactive (and the baseline equals the total), all
\* buttons were active immediately before the user's latest input and the
\* inactive button is the one that input deselected.
C13_IsolateOnlyOnGenuineDeselect ==
    [][(/\ timers' = timers /\ last' = "inverted"
        /\ Cardinality(inactiveToggleButtons(active)) = 1
        /\ numActiveToggleButtons = numToggleButtons)
           => GenuineSingleDeselect]_vars

\* C14: the chain of deferred updateContent runs started by one input (or by
\* the page load) performs at most one inversion before it reaches the
\* hide/reveal step.
C14_AtMostOneInversion == chain.inversions <= 1

\* C15: when updateContent has found no button active, every button is active
\* afterwards and, once the reconciliation has completed, every element
\* carrying a tag marker is visible.
C15_EmptyResetsToAll ==
    chain.emptied =>
        /\ active = tags
        /\ Reconciled => \A b \in Blocks : blockTags[b] # {} => display[b]

\* the user switched off the last active button of a partial selection, and
\* the reconciliation that found the empty selection has completed
C15_Witness ==
    /\ chain.emptied /\ Reconciled
    /\ input.kind = "toggle" /\ input.deselect /\ ~input.allActive
    /\ Cardinality(tags) >= 2
    /\ \E b \in Blocks : blockTags[b] # {} /\ display[b]

\* C19: a tag-button click only schedules updateContent and flips the button:
\* the turn of the click runs no reconciliation.  updateContent runs in a
\* later turn, from a pending timer, and what it computes is computed from
\* the partition as committed at that time, the flip included.
C19_DeferredRead ==
    [][/\ last' = "click" =>
            /\ timers' = timers + 1
            /\ active' = buttonToggle({input'.tag}, active)
            /\ (input'.tag \in active') = ~input'.deselect
            /\ UNCHANGED <<numActiveToggleButtons, display, writes>>
       /\ (ready /\ last' \in {"inverted", "reconciled"}) =>
            /\ timers > 0
            /\ input' = input
            /\ last' = "inverted" =>
                   active' = buttonToggle(allToggleButtons, active)
            /\ last' = "reconciled" =>
                   /\ active' = active
                   /\ numActiveToggleButtons' =
                          Cardinality(activeToggleButtons(active))
                   /\ writes' = PassWrites(active)]_fvars

\* the deferred updateContent of a click that was no single deselect has run
\* and has counted and hidden the button the click switched off
C19_Witness ==
    /\ Reconciled
    /\ input.kind = "toggle" /\ input.deselect /\ ~input.allActive
    /\ input.tag \notin active
    /\ numActiveToggleButtons = Cardinality(active)
    /\ <<"hide", input.tag>> \in {writes[i] : i \in DOMAIN writes}

\* C16: the block-link script asks a block to expand only when the block's
\* section is shown (its 'shown' event has fired), it scrolls to an anchor only
\* when the block is shown (its 'shown' event has fired), a click that finds
\* section and block shown scrolls in the click turn and starts no animation,
\* and every collapse('show') call directly follows the registration of the
\* one-shot listener on the same element.
C16_TransitionOrdering ==
    [][/\ \A i \in DOMAIN ops' :
            /\ (ops'[i][1] = "show" /\ ops'[i][2] = "blk") =>
                   sec'[sectionOf(ops'[i][3])] = "in"
            /\ ops'[i][1] = "scroll" =>
                   /\ blk'[ops'[i][3]] = "in"
                   /\ blk[ops'[i][3]] \in {"in", "showing"}
            /\ ops'[i][1] = "show" =>
                   i > 1 /\ ops'[i - 1] = <<"one", ops'[i][2], ops'[i][3]>>
       /\ \A b \in Panels :
            (onClick(b) /\ sec[sectionOf(b)] = "in" /\ blk[b] = "in") =>
                /\ ops' = ScrollOps(b)
                /\ UNCHANGED <<sec, blk, sectL, scrollL, animQ>>]_vars

\* a click that found section and block closed has run to its end: the last
\* turn was the block's 'shown' event, whose listener scrolled to the anchor
C16_Witness ==
    /\ nav.start = "cc"
    /\ NavTerminal
    /\ ops = ScrollOps(nav.blk)

\* the section, the block or the anchor of block link b is not on the page
Missing(b) ==
    sec[sectionOf(b)] = "absent" \/ blk[b] = "absent" \/ b \notin anchors

\* C17: a block-link click whose section, block or anchor is missing changes
\* no collapse state and registers no listener, and no turn, the click's or a
\* later one, raises an error.
C17_MissingElementsNoOp ==
    [][/\ ~error'
       /\ \A b \in Panels :
            (onClick(b) /\ Missing(b)) =>
                UNCHANGED <<sec, blk, sectL, scrollL, animQ>>]_vars

\* C18: once no element is in transition and no click timer is pending, so
\* that every animation started by a collapse-all click or a block-link click
\* has completed, no one-shot completion listener is left on any element.
C18_NoStaleListeners ==
    (Settled /\ clickTimer = 0) =>
        \A p \in Panels :
            expL[p] = 0 /\ colL[p] = 0 /\ scrollL[p] = 0 /\ sectL[p] = 0

\* C20: a turn of the tag filter (a click on a filter button or a run of
\* updateContent) changes no collapse state, no completion listener and
\* nothing of the collapse-all button; a turn of the block-link script, of
\* the collapse-all script or of a collapse animation changes no tag button,
\* no stored count and no filter display; no turn changes which buttons and
\* marker classes the page has.
C20_FrameBetweenComponents ==
    [][/\ fvars' # fvars =>
            UNCHANGED <<sec, blk, sectL, scrollL, scrolls,
                        expL, colL, mode, label, armed, clickTimer>>
       /\ (svars' # svars \/ cvars' # cvars) =>
            UNCHANGED <<active, numToggleButtons, numActiveToggleButtons,
                        display, timers>>
       /\ UNCHANGED <<tags, blockTags>>]_vars

\* the filter has hidden an element and completed, the block link has opened
\* the section, and a block was collapsed by hand
C20_Witness ==
    /\ Reconciled
    /\ \E b \in Blocks : ~display[b]
    /\ \E s \in Sections : sec[s] = "in"
    /\ \E p \in Panels : blk[p] = "closed"

\* C21: the label and the stored mode of the collapse-all button always
\* agree: mode "collapsed" goes with the expand text and mode "expanded" with
\* the collapse text, so neither is ever updated without the other.
C21_LabelMatchesMode ==
    /\ mode \in {"collapsed", "expanded"}
    /\ (mode = "collapsed") <=> (label = textExpand)
    /\ (mode = "expanded") <=> (label = textCollapse)

\* an expand-all pass and then a collapse-all pass have each flipped the
\* button, and all animations have ended
C21_Witness ==
    /\ pass.target = "collapsed"
    /\ mode = "collapsed" /\ label = textExpand
    /\ Settled /\ clickTimer = 0
    /\ \A p \in Panels : blk[p] = "closed"

\* C22: a run of updateContent that reaches the hide/reveal step leaves the
\* stored baseline equal to the number of active buttons and the stored total
\* equal to the number of tag buttons; a run that takes the special-case
\* branch leaves both as they were: as stored by earlier runs or, for the run
\* at page load, as addEventHandler has just assigned them.
C22_BaselineRecording ==
    [][/\ last' = "reconciled" =>
            /\ numActiveToggleButtons' = Cardinality(activeToggleButtons(active'))
            /\ numToggleButtons' = Cardinality(allToggleButtons')
       /\ (last' = "inverted" /\ ready) =>
            UNCHANGED <<numActiveToggleButtons, numToggleButtons>>
       /\ (last' = "inverted" /\ ~ready) =>
            /\ numActiveToggleButtons' = Cardinality(activeToggleButtons(active))
            /\ numToggleButtons' = Cardinality(allToggleButtons)]_fvars

\* a click was followed by an inversion, which kept the baseline, and then by
\* a hide/reveal pass, which stored the count of the isolated selection
C22_Witness ==
    /\ Reconciled
    /\ input.kind = "toggle" /\ chain.inversions = 1
    /\ numActiveToggleButtons = Cardinality(active)
    /\ numActiveToggleButtons < numToggleButtons
    /\ numToggleButtons = Cardinality(tags)

====
